---- MODULE Spec2Model ----
(***************************************************************************)
(* A model of xstools/xsboard.py: the board classes for XESS XuLA boards.  *)
(*                                                                         *)
(* The board object is driven one call at a time (the code is single-      *)
(* threaded and every device call blocks).  `op` names the call in         *)
(* progress or the last one made, `pc` says whether a loop of that call is *)
(* still running, and `outcome` is how the call ended: a normal return or  *)
(* the exception that left it.  The device (USB link, FPGA, test circuit)  *)
(* is the environment: what it answers is drawn from small sets.           *)
(*                                                                         *)
(* Spec and FairSpec drive get_xsboard, get_board_info and do_self_test.   *)
(* BoardSpec drives the other methods of one constructed board object:     *)
(* the flag methods, update_firmware and the flash and SDRAM workflows,    *)
(* over the flags the microcontroller keeps from one call to the next.     *)
(***************************************************************************)
EXTENDS Integers, Sequences, FiniteSets, TLC

VARIABLES
    op,             \* the call in progress, or the last call made
    pc,             \* "idle", "polling" (do_self_test loop), "probing" (get_xsboard loop)
    outcome,        \* how the last call ended (NoOutcome while one is running)
    events,         \* the phases published on _PHASE by the current call, in order
    prev_progress,  \* do_self_test: the local prev_progress
    poll,           \* do_self_test: the last [progress, failed, signature] read from dut
    polls,          \* do_self_test: loop iterations made, counted modulo PollWindow
    passSeen,       \* do_self_test: some poll read progress DONE with failed = 0
    sigPassSeen,    \* do_self_test: ... and with the self-test signature
    failSeen,       \* do_self_test: some poll read failed = 1 with the self-test signature
    link,           \* get_board_info: what the USB link answered to get_info, reset, get_info
    linkLog,        \* the xsusb calls made by the last run of get_board_info, in order
    info,           \* get_board_info: the local info (the frame it got), <<>> if none
    board_info,     \* get_board_info: the dictionary returned, NoInfo if none
    xsusb_id,       \* get_xsboard: the argument xsusb_id
    xsboard_name,   \* get_xsboard: the argument xsboard_name
    idx,            \* get_xsboard: position of the probing loop in board_classes
    constructed,    \* get_xsboard: the classes c(xsusb_id) was called on, in order
    probed,         \* get_xsboard: per class probed, whether it reported connected
    last,           \* get_xsboard: how the constructor and the check of the last probe ended
    linkUsed,       \* get_xsboard: some xsusb or fpga call has been made
    readable,       \* get_xsboard: every probe so far was constructed and read a valid
                    \*   frame, all of one firmware version
    fmw,            \* get_xsboard: that version <<major, minor>> while readable, else <<>>
    ret,            \* get_xsboard: the value returned (a class, or None)
    self,           \* the class of the board object whose methods are called
    micro,          \* the flags the microcontroller keeps: cfg_flash, jtag_cable
    before,         \* micro when the last method of the board object was called
    trace,          \* the calls that method made, in order, the raising one included
    args,           \* the arguments it was called with
    result,         \* the value it returned, None if it raised or returns nothing
    auxToggles      \* the cable flag each of the last calls read, as long as they are
                    \*   toggle_aux_jtag_flag calls that returned (the last two at most)

vars == <<op, pc, outcome, events, prev_progress, poll, polls,
          passSeen, sigPassSeen, failSeen, link, linkLog, info, board_info,
          xsusb_id, xsboard_name, idx, constructed, probed, last, linkUsed,
          readable, fmw, ret, self, micro, before, trace, args, result,
          auxToggles>>

\* The board object a method is called on and what its last method call did.
boardVars == <<self, micro, before, trace, args, result, auxToggles>>

-----------------------------------------------------------------------------
(* Bounds of the model.                                                    *)

\* The loop counter of do_self_test is kept modulo this window.
PollWindow == 2
\* Polls that would make the published-phase log longer than this are not drawn.
MaxEvents == 7
\* The number of description bytes in an info frame.
DescLen == 2
\* The highest address of a flash or SDRAM range.
MaxAddr == 2

-----------------------------------------------------------------------------
(* How a call ends.                                                        *)

NoOutcome == "running"
Returned == "returned"
XsMajorError == "XsMajorError"
XsMinorError == "XsMinorError"
ValueError == "ValueError"
\* XsMajorError and XsMinorError are the XsError kinds an `except XsError` catches.
XsError == {XsMajorError, XsMinorError}

-----------------------------------------------------------------------------
(* Bit operations on naturals.                                             *)

RECURSIVE BitOr(_, _)
BitOr(a, b) ==
    IF a = 0 THEN b
    ELSE IF b = 0 THEN a
    ELSE (IF a % 2 = 1 \/ b % 2 = 1 THEN 1 ELSE 0) + 2 * BitOr(a \div 2, b \div 2)

RECURSIVE BitAnd(_, _)
BitAnd(a, b) ==
    IF a = 0 \/ b = 0 THEN 0
    ELSE (IF a % 2 = 1 /\ b % 2 = 1 THEN 1 ELSE 0) + 2 * BitAnd(a \div 2, b \div 2)

-----------------------------------------------------------------------------
(* XulaBase.do_self_test                                                   *)

\* A 32-bit signature is held as its two 16-bit halves <<high, low>>.
\* 0xA50000A5
BASE_SIGNATURE == <<42240, 165>>
\* 1 << 8
TEST_TAG == <<0, 256>>
SELF_TEST_SIGNATURE ==
    <<BitOr(BASE_SIGNATURE[1], TEST_TAG[1]), BitOr(BASE_SIGNATURE[2], TEST_TAG[2])>>

TEST_START == 0
TEST_WRITE == 1
TEST_READ == 2
TEST_DONE == 3

\* What dut.read() can deliver: a 2-bit progress, a 1-bit failed flag and a
\* 32-bit signature (the right one, the untagged base pattern, or zeros).
Progresses == {TEST_START, TEST_WRITE, TEST_READ, TEST_DONE}
Signatures == {SELF_TEST_SIGNATURE, BASE_SIGNATURE, <<0, 0>>}
PollResults == [progress : Progresses, failed : {0, 1}, signature : Signatures]
NoPoll == [progress |-> TEST_START, failed |-> 0, signature |-> <<>>]

\* Mutant: the signature is looked at only when progress changed.
SelfTestStepSigLate(prev, r) ==
    IF r.progress # prev
    THEN IF r.signature # SELF_TEST_SIGNATURE
         THEN [emit |-> <<>>, out |-> XsMajorError, prev |-> prev]
         ELSE LET reading == IF r.progress = TEST_READ THEN <<"Reading SDRAM">> ELSE <<>>
              IN  IF r.failed = 1
                  THEN [emit |-> reading \o <<"Test Done">>, out |-> XsMinorError, prev |-> prev]
                  ELSE IF r.progress = TEST_DONE
                  THEN [emit |-> reading \o <<"Test Done">>, out |-> Returned, prev |-> prev]
                  ELSE [emit |-> reading, out |-> NoOutcome, prev |-> r.progress]
    ELSE [emit |-> <<>>, out |-> NoOutcome, prev |-> r.progress]

\* Mutant: every poll is acted on, whether or not progress changed.
SelfTestStepNoChangeGuard(prev, r) ==
    IF r.signature # SELF_TEST_SIGNATURE
    THEN [emit |-> <<>>, out |-> XsMajorError, prev |-> prev]
    ELSE LET reading == IF r.progress = TEST_READ THEN <<"Reading SDRAM">> ELSE <<>>
         IN  IF r.failed = 1
             THEN [emit |-> reading \o <<"Test Done">>, out |-> XsMinorError, prev |-> prev]
             ELSE IF r.progress = TEST_DONE
             THEN [emit |-> reading \o <<"Test Done">>, out |-> Returned, prev |-> prev]
             ELSE [emit |-> reading, out |-> NoOutcome, prev |-> r.progress]

\* Mutant: a poll reading DONE is taken as a pass without looking at failed.
SelfTestStepDoneFirst(prev, r) ==
    IF r.signature # SELF_TEST_SIGNATURE
    THEN [emit |-> <<>>, out |-> XsMajorError, prev |-> prev]
    ELSE IF r.progress # prev
    THEN LET reading == IF r.progress = TEST_READ THEN <<"Reading SDRAM">> ELSE <<>>
         IN  IF r.progress = TEST_DONE
             THEN [emit |-> reading \o <<"Test Done">>, out |-> Returned, prev |-> prev]
             ELSE IF r.failed = 1
             THEN [emit |-> reading \o <<"Test Done">>, out |-> XsMinorError, prev |-> prev]
             ELSE [emit |-> reading, out |-> NoOutcome, prev |-> r.progress]
    ELSE [emit |-> <<>>, out |-> NoOutcome, prev |-> r.progress]

\* One iteration of the `while True` loop on the poll result r: the phases it
\* publishes, how it leaves the loop (NoOutcome: it does not), and the value
\* prev_progress has afterwards.
SelfTestStep(prev, r) ==
    IF r.signature # SELF_TEST_SIGNATURE
    THEN [emit |-> <<>>, out |-> XsMajorError, prev |-> prev]
    ELSE IF r.progress # prev
    THEN LET reading == IF r.progress = TEST_READ THEN <<"Reading SDRAM">> ELSE <<>>
         IN  IF r.failed = 1
             THEN [emit |-> reading \o <<"Test Done">>, out |-> XsMinorError, prev |-> prev]
             ELSE IF r.progress = TEST_DONE
             THEN [emit |-> reading \o <<"Test Done">>, out |-> Returned, prev |-> prev]
             ELSE [emit |-> reading, out |-> NoOutcome, prev |-> r.progress]
    ELSE [emit |-> <<>>, out |-> NoOutcome, prev |-> r.progress]

-----------------------------------------------------------------------------
(* XulaMicro.get_board_info                                                *)

None == "None"

RECURSIVE SumBytes(_)
SumBytes(s) == IF s = <<>> THEN 0 ELSE Head(s) + SumBytes(Tail(s))

RECURSIVE Pow10(_)
Pow10(n) == IF n = 0 THEN 1 ELSE 10 * Pow10(n - 1)

\* The info frames the link can deliver.  Python's info[0] is info[1] here:
\* one leading byte, two ID bytes, the version's major and minor byte, then
\* the description.  The leading byte either makes the byte sum 0 modulo 256
\* or is off by one (a corrupted frame).
IdPairs == {<<1, 172>>}
Majors == {0, 1, 2}
Minors == {1, 2, 10}
DescBytes == {0, 65}
Descs == [1..DescLen -> DescBytes]
FrameTails == {id \o <<v[1], v[2]>> \o d : id \in IdPairs, v \in Majors \X Minors, d \in Descs}
CheckByte(tail) == (256 - (SumBytes(tail) % 256)) % 256
Frames ==
    UNION {{<<b>> \o t : b \in {CheckByte(t), (CheckByte(t) + 1) % 256}} : t \in FrameTails}

\* What one xsusb call can answer: xsusb.get_info() delivers a frame or raises
\* an XsError; xsusb.reset() returns or raises an XsError.
FetchOutcomes ==
    {[err |-> e, frame |-> <<>>] : e \in XsError} \cup {[err |-> None, frame |-> f] : f \in Frames}
ResetOutcomes == {None} \cup XsError
NotAsked == [err |-> "not asked", frame |-> <<>>]
NoAnswers == [first |-> NotAsked, reset |-> "not asked", second |-> NotAsked]

\* '%02x' % b
HexDigits == <<"0", "1", "2", "3", "4", "5", "6", "7", "8", "9", "a", "b", "c", "d", "e", "f">>
Hex2(b) == <<HexDigits[(b \div 16) + 1], HexDigits[(b % 16) + 1]>>

\* '%d' % n
RECURSIVE Dec(_)
Dec(n) == IF n < 10 THEN <<HexDigits[n + 1]>> ELSE Dec(n \div 10) \o <<HexDigits[(n % 10) + 1]>>

NoInfo == [ID |-> <<>>, VERSION |-> <<>>, DESCRIPTION |-> <<>>]

\* Mutant: the frame is fetched again without resetting the board.
FetchInfoNoReset(f1, rst, f2) ==
    IF f1.err = None
    THEN [err |-> None, info |-> f1.frame, log |-> <<"get_info">>]
    ELSE IF f2.err # None
    THEN [err |-> XsMajorError, info |-> <<>>, log |-> <<"get_info", "get_info">>]
    ELSE [err |-> None, info |-> f2.frame, log |-> <<"get_info", "get_info">>]

\* The try/except around xsusb.get_info(): f1 is what the first get_info
\* answers, rst what reset answers, f2 what the second get_info answers.
FetchInfo(f1, rst, f2) ==
    IF f1.err = None
    THEN [err |-> None, info |-> f1.frame, log |-> <<"get_info">>]
    ELSE IF rst # None
    THEN [err |-> XsMajorError, info |-> <<>>, log |-> <<"get_info", "reset">>]
    ELSE IF f2.err # None
    THEN [err |-> XsMajorError, info |-> <<>>, log |-> <<"get_info", "reset", "get_info">>]
    ELSE [err |-> None, info |-> f2.frame, log |-> <<"get_info", "reset", "get_info">>]

\* desc.index(0): the (0-based) position of the first zero byte, -1 standing
\* for the ValueError raised when there is none.
Index0(desc) ==
    LET zeros == {i \in 1..Len(desc) : desc[i] = 0}
    IN  IF zeros = {} THEN -1 ELSE (CHOOSE i \in zeros : \A j \in zeros : i <= j) - 1

\* Mutant: the frame is parsed without the checksum test.
ParseInfoNoChecksum(f) ==
    LET desc == SubSeq(f, 6, Len(f))
        desc_len == Index0(desc)
    IN  IF desc_len < 0
        THEN [kind |-> ValueError, board_info |-> NoInfo]
        ELSE [kind |-> Returned,
              board_info |-> [ID |-> Hex2(f[2]) \o Hex2(f[3]),
                              VERSION |-> Dec(f[4]) \o <<".">> \o Dec(f[5]),
                              DESCRIPTION |-> SubSeq(desc, 1, desc_len)]]

\* The rest of get_board_info, on the frame f it got: the checksum test and
\* the making of the dictionary.
ParseInfo(f) ==
    IF BitAnd(SumBytes(f), 255) # 0
    THEN [kind |-> XsMinorError, board_info |-> NoInfo]
    ELSE LET desc == SubSeq(f, 6, Len(f))
             desc_len == Index0(desc)
         IN  IF desc_len < 0
             THEN [kind |-> ValueError, board_info |-> NoInfo]
             ELSE [kind |-> Returned,
                   board_info |-> [ID |-> Hex2(f[2]) \o Hex2(f[3]),
                                   VERSION |-> Dec(f[4]) \o <<".">> \o Dec(f[5]),
                                   DESCRIPTION |-> SubSeq(desc, 1, desc_len)]]

\* get_board_info as a whole: how it ends, what it returns, the frame it got
\* and the xsusb calls it made.
GetBoardInfo(f1, rst, f2) ==
    LET got == FetchInfo(f1, rst, f2)
    IN  IF got.err # None
        THEN [kind |-> got.err, board_info |-> NoInfo, info |-> <<>>, log |-> got.log]
        ELSE LET parsed == ParseInfo(got.info)
             IN  [kind |-> parsed.kind, board_info |-> parsed.board_info,
                  info |-> got.info, log |-> got.log]

\* The answers of the link that one run of get_board_info can meet: reset is
\* only called after a failed get_info, the second get_info only after a
\* reset that returned.
LinkAnswers ==
    UNION {UNION {{[first |-> f1, reset |-> rst, second |-> f2] :
                      f2 \in IF f1.err # None /\ rst = None THEN FetchOutcomes ELSE {NotAsked}} :
                  rst \in IF f1.err # None THEN ResetOutcomes ELSE {"not asked"}} :
           f1 \in FetchOutcomes}

\* The ways one run of get_board_info can end, over all the link can answer.
BoardInfoOutcomes == {GetBoardInfo(a.first, a.reset, a.second) : a \in LinkAnswers}
NoBoardInfo == [kind |-> "not run", board_info |-> NoInfo, info |-> <<>>, log |-> <<>>]

-----------------------------------------------------------------------------
(* The firmware version and the connectivity checks.                       *)

DigitValue(c) == CHOOSE d \in 0..9 : HexDigits[d + 1] = c

RECURSIVE ParseNat(_)
ParseNat(ds) ==
    IF ds = <<>> THEN 0
    ELSE 10 * ParseNat(SubSeq(ds, 1, Len(ds) - 1)) + DigitValue(ds[Len(ds)])

\* float(s) for a string s of digits, a point and digits, as the fraction
\* num/den it denotes.  (Rounding to a double keeps the order of two such
\* numbers that differ, and these have at most three fractional digits.)
Float(s) ==
    LET dot == CHOOSE i \in 1..Len(s) : s[i] = "."
        frac == Len(s) - dot
    IN  [num |-> ParseNat(SubSeq(s, 1, dot - 1)) * Pow10(frac)
                   + ParseNat(SubSeq(s, dot + 1, Len(s))),
         den |-> Pow10(frac)]

\* The literal 1.2 of the version tests.
MinVersion == [num |-> 12, den |-> 10]
Less(v, w) == v.num * w.den < w.num * v.den

\* get_board_fmw_version, on the outcome bi of get_board_info.
BoardFmwVersion(bi) == Float(bi.board_info.VERSION)

\* What fpga.is_connected() can answer: True, False, or an XsError.
FpgaOutcomes ==
    {[raised |-> None, value |-> v] : v \in BOOLEAN}
        \cup {[raised |-> e, value |-> FALSE] : e \in XsError}
FpgaNotAsked == [raised |-> "not asked", value |-> FALSE]

\* The classes get_xsboard knows, in its order, with their name attributes.
board_classes == <<"XulaOldFmw", "Xula50", "Xula200", "Xula2lx25", "Xula2lx9", "XulaNoJtag">>

ClassName(c) ==
    CASE c = "XulaOldFmw" -> <<"X", "u", "L", "A", " ", "U", "N", "K", "N", "O", "W", "N">>
      [] c = "Xula50"     -> <<"X", "u", "L", "A", "-", "5", "0">>
      [] c = "Xula200"    -> <<"X", "u", "L", "A", "-", "2", "0", "0">>
      [] c = "Xula2lx25"  -> <<"X", "u", "L", "A", "2", "-", "L", "X", "2", "5">>
      [] c = "Xula2lx9"   -> <<"X", "u", "L", "A", "2", "-", "L", "X", "9">>
      [] c = "XulaNoJtag" -> <<"X", "u", "L", "A", " ", "U", "N", "K", "N", "O", "W", "N">>

\* The classes whose __init__ sets self.fpga.
HasFpga(c) == c \in {"Xula50", "Xula200", "Xula2lx25", "Xula2lx9"}

\* Whether is_connected of class c gets as far as asking the FPGA.
AsksFpga(c, bi) ==
    /\ HasFpga(c)
    /\ bi.kind = Returned
    /\ ~Less(BoardFmwVersion(bi), MinVersion)

\* is_connected of class c (XulaMicro's for the classes with an FPGA,
\* XulaOldFmw's and XulaNoJtag's own), on the outcome bi of get_board_info
\* and the answer fp of the FPGA: the exception that leaves it, if any, and
\* the value returned.
IsConnected(c, bi, fp) ==
    IF bi.kind \in XsError
    THEN [raised |-> None, value |-> FALSE]
    ELSE IF bi.kind # Returned
    THEN [raised |-> bi.kind, value |-> FALSE]
    ELSE LET old == Less(BoardFmwVersion(bi), MinVersion)
         IN  CASE c = "XulaOldFmw" -> [raised |-> None, value |-> old]
               [] c = "XulaNoJtag" -> [raised |-> None, value |-> ~old]
               [] OTHER -> IF old
                           THEN [raised |-> None, value |-> FALSE]
                           ELSE IF HasFpga(c)
                           THEN fp
                           ELSE [raised |-> None, value |-> FALSE]

-----------------------------------------------------------------------------
(* XsBoard.get_xsboard                                                     *)

\* str.lower()
UpperCase == <<"A", "B", "C", "D", "E", "F", "G", "H", "I", "J", "K", "L", "M",
               "N", "O", "P", "Q", "R", "S", "T", "U", "V", "W", "X", "Y", "Z">>
LowerCase == <<"a", "b", "c", "d", "e", "f", "g", "h", "i", "j", "k", "l", "m",
               "n", "o", "p", "q", "r", "s", "t", "u", "v", "w", "x", "y", "z">>
ToLower == [c \in {UpperCase[i] : i \in 1..Len(UpperCase)} |->
                LowerCase[CHOOSE i \in 1..Len(UpperCase) : UpperCase[i] = c]]
LowerChar(c) == IF c \in DOMAIN ToLower THEN ToLower[c] ELSE c
Lower(s) == [i \in 1..Len(s) |-> LowerChar(s[i])]

\* The arguments get_xsboard is called with.
UsbIds == {None, "0", "1"}
BoardNames ==
    {<<>>,
     <<"x", "u", "l", "a", "-", "5", "0">>,
     <<"X", "U", "L", "A", "2", "-", "L", "X", "9">>,
     <<"X", "u", "L", "A", " ", "U", "N", "K", "N", "O", "W", "N">>,
     <<"X", "u", "L", "A", "-", "3">>}

\* The first loop: the position in board_classes of the first class whose
\* name is xsboard_name but for case, 0 if there is none.
NameMatch(name) ==
    LET hits == {i \in 1..Len(board_classes) : Lower(name) = Lower(ClassName(board_classes[i]))}
    IN  IF hits = {} THEN 0 ELSE CHOOSE i \in hits : \A j \in hits : i <= j

\* Mutant: the name is matched before xsusb_id is looked at.
GetXsboardEntryNameFirst(id, name) ==
    IF NameMatch(name) # 0 THEN [way |-> "named", cls |-> board_classes[NameMatch(name)]]
    ELSE IF id = None THEN [way |-> "none", cls |-> None]
    ELSE [way |-> "probe", cls |-> None]

\* Which way get_xsboard goes: it returns None at once ("none"), constructs
\* the first class of that name ("named"), or probes the classes in turn.
GetXsboardEntry(id, name) ==
    IF id = None THEN [way |-> "none", cls |-> None]
    ELSE IF NameMatch(name) # 0 THEN [way |-> "named", cls |-> board_classes[NameMatch(name)]]
    ELSE [way |-> "probe", cls |-> None]

\* One pass through the probing loop's try block: ctor is how c(xsusb_id)
\* ended, conn how is_connected ended.  "return": the board is returned;
\* "next": on to the next class; otherwise the exception that leaves
\* get_xsboard.
ProbeStep(ctor, conn) ==
    IF ctor \in XsError THEN "next"
    ELSE IF conn.raised \in XsError THEN "next"
    ELSE IF conn.raised # None THEN conn.raised
    ELSE IF conn.value THEN "return"
    ELSE "next"

NoProbe == [ctor |-> "not run", check |-> "not run", asked |-> FALSE]

\* The version bytes of the frame a run of get_board_info got (Python's
\* info[3], info[4]).
VersionBytes(bi) == <<bi.info[4], bi.info[5]>>

-----------------------------------------------------------------------------
(* A call starts with its own locals; those of the call before are gone.   *)

SelfTestFresh ==
    /\ prev_progress' = TEST_START
    /\ poll' = NoPoll
    /\ polls' = 0
    /\ passSeen' = FALSE
    /\ sigPassSeen' = FALSE
    /\ failSeen' = FALSE

BoardInfoFresh ==
    /\ link' = NoAnswers
    /\ linkLog' = <<>>
    /\ info' = <<>>
    /\ board_info' = NoInfo

XsboardFresh ==
    /\ xsusb_id' = None
    /\ xsboard_name' = <<>>
    /\ idx' = 0
    /\ constructed' = <<>>
    /\ probed' = <<>>
    /\ last' = NoProbe
    /\ linkUsed' = FALSE
    /\ readable' = TRUE
    /\ fmw' = <<>>
    /\ ret' = None

-----------------------------------------------------------------------------
(* The calls.                                                              *)

\* The call up to the loop: publish, configure the FPGA with the test
\* bitstream (XulaBase.configure publishes its own two phases; fpga.configure
\* may raise), open the dut channel, pulse the test circuit's reset, publish
\* 'Writing SDRAM' and set prev_progress.
CallDoSelfTest ==
    /\ pc = "idle"
    /\ UNCHANGED boardVars
    /\ \E cfg \in {Returned, XsMajorError, XsMinorError} :
          IF cfg = Returned
          THEN /\ pc' = "polling"
               /\ outcome' = NoOutcome
               /\ events' = <<"Downloading diagostic bitstream", "Downloading bitstream",
                              "Download complete", "Writing SDRAM">>
          ELSE /\ pc' = "idle"
               /\ outcome' = cfg
               /\ events' = <<"Downloading diagostic bitstream", "Downloading bitstream">>
    /\ op' = "do_self_test"
    /\ SelfTestFresh
    /\ BoardInfoFresh
    /\ XsboardFresh

\* One pass through the loop body: dut.read() and what the code does with it.
Poll ==
    /\ pc = "polling"
    /\ UNCHANGED boardVars
    /\ \E r \in PollResults :
          LET s == SelfTestStep(prev_progress, r)
          IN  /\ Len(events) + Len(s.emit) <= MaxEvents
              /\ poll' = r
              /\ events' = events \o s.emit
              /\ outcome' = s.out
              /\ pc' = IF s.out = NoOutcome THEN "polling" ELSE "idle"
              /\ prev_progress' = s.prev
              /\ passSeen' = (passSeen \/ (r.progress = TEST_DONE /\ r.failed = 0))
              /\ sigPassSeen' = (sigPassSeen \/ (r.progress = TEST_DONE /\ r.failed = 0
                                                 /\ r.signature = SELF_TEST_SIGNATURE))
              /\ failSeen' = (failSeen \/ (r.failed = 1 /\ r.signature = SELF_TEST_SIGNATURE))
    /\ polls' = (polls + 1) % PollWindow
    /\ op' = op
    /\ UNCHANGED <<link, linkLog, info, board_info>>
    /\ UNCHANGED <<xsusb_id, xsboard_name, idx, constructed, probed, last, linkUsed,
                   readable, fmw, ret>>

\* XulaMicro.get_board_info, called on its own.
CallGetBoardInfo ==
    /\ pc = "idle"
    /\ UNCHANGED boardVars
    /\ \E a \in LinkAnswers :
       \E r \in {GetBoardInfo(a.first, a.reset, a.second)} :
          /\ link' = a
          /\ linkLog' = r.log
          /\ info' = r.info
          /\ board_info' = r.board_info
          /\ outcome' = r.kind
    /\ op' = "get_board_info"
    /\ pc' = "idle"
    /\ events' = <<>>
    /\ SelfTestFresh
    /\ XsboardFresh

\* XsBoard.get_xsboard up to the probing loop.
CallGetXsboard ==
    /\ pc = "idle"
    /\ UNCHANGED boardVars
    /\ \E id \in UsbIds, name \in BoardNames :
       \E entry \in {GetXsboardEntry(id, name)} :
          /\ xsusb_id' = id
          /\ xsboard_name' = name
          /\ CASE entry.way = "none" ->
                    /\ pc' = "idle" /\ outcome' = Returned /\ ret' = None
                    /\ constructed' = <<>> /\ idx' = 0
               [] entry.way = "named" ->
                    \E ctor \in {Returned} \cup XsError :
                        /\ pc' = "idle" /\ outcome' = ctor
                        /\ ret' = IF ctor = Returned THEN entry.cls ELSE None
                        /\ constructed' = <<entry.cls>>
                        /\ idx' = 0
               [] OTHER ->
                    /\ pc' = "probing" /\ outcome' = NoOutcome /\ ret' = None
                    /\ constructed' = <<>> /\ idx' = 1
    /\ op' = "get_xsboard"
    /\ events' = <<>>
    /\ probed' = <<>>
    /\ last' = NoProbe
    /\ linkUsed' = FALSE
    /\ readable' = TRUE
    /\ fmw' = <<>>
    /\ SelfTestFresh
    /\ BoardInfoFresh

\* One pass through the probing loop: construct board_classes[idx], ask it
\* whether it is connected (which runs get_board_info and, for some classes,
\* asks the FPGA), and return it, go on to the next class, or leave the loop.
Probe ==
    /\ pc = "probing"
    /\ UNCHANGED boardVars
    /\ \E ctor \in {Returned} \cup XsError :
       \E bi \in IF ctor = Returned THEN BoardInfoOutcomes ELSE {NoBoardInfo} :
       \E asks \in {ctor = Returned /\ AsksFpga(board_classes[idx], bi)} :
       \E fp \in IF asks THEN FpgaOutcomes ELSE {FpgaNotAsked} :
       \E conn \in {IF ctor = Returned THEN IsConnected(board_classes[idx], bi, fp)
                    ELSE [raised |-> "not run", value |-> FALSE]} :
       \E step \in {ProbeStep(ctor, conn)} :
          /\ constructed' = Append(constructed, board_classes[idx])
          /\ probed' = Append(probed, [cls |-> board_classes[idx],
                                       connected |-> ctor = Returned /\ conn.raised = None
                                                     /\ conn.value])
          /\ last' = [ctor |-> ctor,
                      check |-> IF ctor # Returned THEN "not run"
                                ELSE IF conn.raised # None THEN conn.raised
                                ELSE IF conn.value THEN "True" ELSE "False",
                      asked |-> asks]
          /\ linkUsed' = (linkUsed \/ bi.log # <<>> \/ asks)
          /\ \E steady \in {readable /\ ctor = Returned /\ bi.kind = Returned
                               /\ (fmw = <<>> \/ fmw = VersionBytes(bi))} :
                /\ readable' = steady
                /\ fmw' = IF steady THEN VersionBytes(bi) ELSE <<>>
          /\ linkLog' = bi.log
          /\ CASE step = "return" ->
                    /\ pc' = "idle" /\ outcome' = Returned
                    /\ ret' = board_classes[idx] /\ idx' = idx
               [] step = "next" /\ idx < Len(board_classes) ->
                    /\ pc' = "probing" /\ outcome' = NoOutcome /\ ret' = None
                    /\ idx' = idx + 1
               [] step = "next" /\ idx = Len(board_classes) ->
                    /\ pc' = "idle" /\ outcome' = Returned /\ ret' = None /\ idx' = idx
               [] OTHER ->
                    /\ pc' = "idle" /\ outcome' = step /\ ret' = None /\ idx' = idx
    /\ UNCHANGED <<op, events, xsusb_id, xsboard_name, link, info, board_info>>
    /\ UNCHANGED <<prev_progress, poll, polls, passSeen, sigPassSeen, failSeen>>

-----------------------------------------------------------------------------
(* Methods of a board object: the flags kept by the microcontroller, the   *)
(* firmware update and the flash and SDRAM workflows.  A method body is a  *)
(* straight line of statements: its plan is the sequence of calls it makes *)
(* on pubsub, the USB link, the microcontroller, the FPGA and the memory   *)
(* drivers.  Any of these calls but publishing and sleeping may raise.     *)

\* The classes with an FPGA, a flash and an SDRAM: the objects the methods
\* below are called on.
BoardObjects == {"Xula50", "Xula200", "Xula2lx25", "Xula2lx9"}

IsXula(c) == c \in {"Xula50", "Xula200"}

IsXula2(c) == c \in {"Xula2lx25", "Xula2lx9"}

cfg_flash_bitstream(c) ==
    CASE c = "Xula50" -> "fintf_jtag_50.bit"
      [] c = "Xula200" -> "fintf_jtag_200.bit"
      [] c = "Xula2lx25" -> "fintf_jtag_lx25.bit"
      [] c = "Xula2lx9" -> "fintf_jtag_lx9.bit"

sdram_bitstream(c) ==
    CASE c = "Xula50" -> "ramintfc_jtag_50.bit"
      [] c = "Xula200" -> "ramintfc_jtag_200.bit"
      [] c = "Xula2lx25" -> "ramintfc_jtag_lx25.bit"
      [] c = "Xula2lx9" -> "ramintfc_jtag_lx9.bit"

firmware(c) == "XuLA_jtag.hex"

\* One statement of a plan: the call, its text argument and its numbers.
Do(name, what, range) == [call |-> name, what |-> what, range |-> range]

Phase(text) == Do("pub.sendMessage", text, <<>>)

\* What the caller passes: the ranges bottom..top and the hex files.
Ranges == {<<bottom, MaxAddr>> : bottom \in 0..(MaxAddr - 1)}

HexFiles == {"user.hex"}

NoArgs == [flag |-> None, hexfile |-> None, range |-> <<>>]

PyBool(b) == IF b THEN "True" ELSE "False"

\* The flags the microcontroller keeps: flash enable and auxiliary JTAG cable.
Flags == {0, 1}

MicroStates == [cfg_flash : Flags, jtag_cable : Flags]

\* What a completed microcontroller command does to the flags.  The number of
\* a micro.program step is the cable flag that programming leaves behind.
MicroEffect(m, step) ==
    CASE step.call = "micro.enable_cfg_flash" -> [m EXCEPT !.cfg_flash = 1]
      [] step.call = "micro.disable_cfg_flash" -> [m EXCEPT !.cfg_flash = 0]
      [] step.call = "micro.set_cfg_flash_flag" -> [m EXCEPT !.cfg_flash = step.range[1]]
      [] step.call = "micro.enable_jtag_cable" -> [m EXCEPT !.jtag_cable = 1]
      [] step.call = "micro.disable_jtag_cable" -> [m EXCEPT !.jtag_cable = 0]
      [] step.call = "micro.program" -> [m EXCEPT !.jtag_cable = step.range[1]]
      [] OTHER -> m

RECURSIVE RunMicro(_, _)
RunMicro(m, steps) ==
    IF steps = <<>> THEN m
    ELSE RunMicro(MicroEffect(m, Head(steps)), Tail(steps))

\* Where a plan can stop: nowhere (at = 0), or at a call that raises.
CanRaise(step) == step.call \notin {"pub.sendMessage", "time.sleep"}

Failures(plan) ==
    {[at |-> 0, err |-> None]}
        \cup {[at |-> i, err |-> e] : i \in {j \in 1..Len(plan) : CanRaise(plan[j])},
                                      e \in XsError}

\* The calls made, the raising one included, and those of them that completed.
Tried(plan, fail) == IF fail.at = 0 THEN plan ELSE SubSeq(plan, 1, fail.at)

Completed(plan, fail) == IF fail.at = 0 THEN plan ELSE SubSeq(plan, 1, fail.at - 1)

(* XulaMicro: update_firmware and the flag methods. *)

UpdateFirmwareNoDisable(c, hexfile, reflashed) ==
    [plan |-> <<Phase("Updating firmware"),
                Do("micro.enter_reflash_mode", "", <<>>),
                Do("micro.program", IF hexfile = None THEN firmware(c) ELSE hexfile,
                   <<reflashed>>),
                Do("micro.enter_user_mode", "", <<>>),
                Phase("Firmware update done")>>,
     res |-> None]

UpdateFirmware(c, hexfile, reflashed) ==
    [plan |-> <<Phase("Updating firmware"),
                Do("micro.enter_reflash_mode", "", <<>>),
                Do("micro.program", IF hexfile = None THEN firmware(c) ELSE hexfile,
                   <<reflashed>>),
                Do("micro.enter_user_mode", "", <<>>),
                Do("micro.disable_jtag_cable", "", <<>>),
                Phase("Firmware update done")>>,
     res |-> None]

SetAuxJtagFlag(flag) ==
    IF ~flag THEN [plan |-> <<Do("micro.disable_jtag_cable", "", <<>>)>>, res |-> PyBool(FALSE)]
    ELSE [plan |-> <<Do("micro.enable_jtag_cable", "", <<>>)>>, res |-> PyBool(TRUE)]

GetAuxJtagFlag(m) ==
    [plan |-> <<Do("micro.get_jtag_cable_flag", "", <<>>)>>, res |-> PyBool(m.jtag_cable # 0)]

\* Two method bodies run one after the other; the value is the second's.
Then(first, second) == [plan |-> first.plan \o second.plan, res |-> second.res]

ToggleAuxJtagFlagNoNegation(m) ==
    Then(GetAuxJtagFlag(m), SetAuxJtagFlag(GetAuxJtagFlag(m).res = PyBool(TRUE)))

ToggleAuxJtagFlag(m) ==
    Then(GetAuxJtagFlag(m), SetAuxJtagFlag(~(GetAuxJtagFlag(m).res = PyBool(TRUE))))

XulaMicroSetFlashFlag(flag) ==
    IF ~flag THEN [plan |-> <<Do("micro.disable_cfg_flash", "", <<>>)>>, res |-> PyBool(FALSE)]
    ELSE [plan |-> <<Do("micro.enable_cfg_flash", "", <<>>)>>, res |-> PyBool(TRUE)]

XulaMicroGetFlashFlag(m) ==
    [plan |-> <<Do("micro.get_cfg_flash_flag", "", <<>>)>>, res |-> PyBool(m.cfg_flash # 0)]

(* Xula2: the flash is always enabled. *)

Xula2SetFlashFlagInherited(flag) == XulaMicroSetFlashFlag(flag)

Xula2SetFlashFlag(flag) == [plan |-> <<>>, res |-> PyBool(TRUE)]

Xula2GetFlashFlag(m) == [plan |-> <<>>, res |-> PyBool(TRUE)]

\* The flag methods of an object of class c.
SetFlashFlag(c, flag) ==
    IF IsXula2(c) THEN Xula2SetFlashFlag(flag) ELSE XulaMicroSetFlashFlag(flag)

GetFlashFlag(c, m) ==
    IF IsXula2(c) THEN Xula2GetFlashFlag(m) ELSE XulaMicroGetFlashFlag(m)

ToggleFlashFlag(c, m) ==
    IF IsXula2(c) THEN GetFlashFlag(c, m)
    ELSE Then(GetFlashFlag(c, m), SetFlashFlag(c, ~(GetFlashFlag(c, m).res = PyBool(TRUE))))

(* XulaBase: configure and the flash and SDRAM workflows. *)

ConfigureNoPulse(bitstream) ==
    <<Phase("Downloading bitstream"),
      Do("time.sleep", "0.03", <<>>),
      Do("fpga.configure", bitstream, <<>>),
      Phase("Download complete")>>

Configure(bitstream) ==
    <<Phase("Downloading bitstream"),
      Do("xsusb.set_prog", "", <<1>>),
      Do("xsusb.set_prog", "", <<0>>),
      Do("xsusb.set_prog", "", <<1>>),
      Do("time.sleep", "0.03", <<>>),
      Do("fpga.configure", bitstream, <<>>),
      Phase("Download complete")>>

XulaBaseReadCfgFlash(c, r) ==
    [plan |-> <<Phase("Configuring FPGA for reading configuration flash")>>
              \o Configure(cfg_flash_bitstream(c))
              \o <<Phase("Reading configuration flash"),
                   Do("create_cfg_flash", "", <<>>),
                   Do("cfg_flash.read", "", r),
                   Phase("Configuration flash read done")>>,
     res |-> "hex_data"]

XulaBaseWriteCfgFlash(c, hexfile, r) ==
    [plan |-> <<Phase("Configuring FPGA for writing configuration flash")>>
              \o Configure(cfg_flash_bitstream(c))
              \o <<Phase("Erasing configuration flash"),
                   Do("create_cfg_flash", "", <<>>),
                   Do("cfg_flash.erase", "", <<>>),
                   Phase("Writing configuration flash"),
                   Do("cfg_flash.write", hexfile, r),
                   Phase("Configuration flash write done")>>,
     res |-> None]

XulaBaseEraseCfgFlash(c, r) ==
    [plan |-> <<Phase("Configuring FPGA for erasing configuration flash")>>
              \o Configure(cfg_flash_bitstream(c))
              \o <<Phase("Erasing configuration flash"),
                   Do("create_cfg_flash", "", <<>>),
                   Do("cfg_flash.erase", "", <<>>),
                   Phase("Configuration flash erase done")>>,
     res |-> None]

ReadSdram(c, r) ==
    [plan |-> <<Phase("Configuring FPGA for reading SDRAM")>>
              \o Configure(sdram_bitstream(c))
              \o <<Phase("Reading SDRAM"),
                   Do("create_sdram", "", <<>>),
                   Do("sdram.read", "", r),
                   Phase("SDRAM read done")>>,
     res |-> "hex_data"]

WriteSdram(c, hexfile, r) ==
    [plan |-> <<Phase("Configuring FPGA for writing SDRAM")>>
              \o Configure(sdram_bitstream(c))
              \o <<Phase("Writing SDRAM"),
                   Do("create_sdram", "", <<>>),
                   Do("sdram.write", hexfile, r),
                   Phase("SDRAM write done")>>,
     res |-> None]

EraseSdram(c, r) ==
    [plan |-> <<Phase("Configuring FPGA for erasing SDRAM")>>
              \o Configure(sdram_bitstream(c))
              \o <<Phase("Erasing SDRAM"),
                   Do("create_sdram", "", <<>>),
                   Do("sdram.erase", "", r),
                   Phase("SDRAM erase done")>>,
     res |-> None]

(* Xula: the flash workflows run with the flash enabled. *)

XulaKeepFlagNoRestore(m, body) ==
    [plan |-> <<Do("micro.get_cfg_flash_flag", "", <<>>),
                Do("micro.enable_cfg_flash", "", <<>>)>>
              \o body.plan,
     res |-> body.res]

\* The statements Xula puts around a flash workflow of XulaBase; m is the
\* microcontroller at the call, so m.cfg_flash is what get_cfg_flash_flag reads.
XulaKeepFlag(m, body) ==
    [plan |-> <<Do("micro.get_cfg_flash_flag", "", <<>>),
                Do("micro.enable_cfg_flash", "", <<>>)>>
              \o body.plan
              \o <<Do("micro.set_cfg_flash_flag", "", <<m.cfg_flash>>)>>,
     res |-> body.res]

\* The flash workflows of an object of class c.
ReadCfgFlash(c, m, r) ==
    IF IsXula(c) THEN XulaKeepFlag(m, XulaBaseReadCfgFlash(c, r))
    ELSE XulaBaseReadCfgFlash(c, r)

WriteCfgFlash(c, m, hexfile, r) ==
    IF IsXula(c) THEN XulaKeepFlag(m, XulaBaseWriteCfgFlash(c, hexfile, r))
    ELSE XulaBaseWriteCfgFlash(c, hexfile, r)

EraseCfgFlash(c, m, r) ==
    IF IsXula(c) THEN XulaKeepFlag(m, XulaBaseEraseCfgFlash(c, r))
    ELSE XulaBaseEraseCfgFlash(c, r)

(* The method calls. *)

\* The locals of do_self_test, get_board_info and get_xsboard.
callLocals == <<events, prev_progress, poll, polls, passSeen, sigPassSeen, failSeen,
                link, linkLog, info, board_info, xsusb_id, xsboard_name, idx,
                constructed, probed, last, linkUsed, readable, fmw, ret>>

LastTwo(s) == IF Len(s) > 2 THEN Tail(s) ELSE s

\* A method of the board object runs: its statements in order, up to the
\* first call that raises.
Invoke(method, a, body) ==
    /\ \E fail \in Failures(body.plan) :
          /\ trace' = Tried(body.plan, fail)
          /\ micro' = RunMicro(micro, Completed(body.plan, fail))
          /\ auxToggles' = IF method = "toggle_aux_jtag_flag" /\ fail.at = 0
                            THEN LastTwo(Append(auxToggles, micro.jtag_cable))
                            ELSE <<>>
          /\ outcome' = IF fail.at = 0 THEN Returned ELSE fail.err
          /\ result' = IF fail.at = 0 THEN body.res ELSE None
    /\ op' = method
    /\ pc' = "idle"
    /\ before' = micro
    /\ args' = a
    /\ UNCHANGED self
    /\ UNCHANGED callLocals

CallUpdateFirmware ==
    /\ pc = "idle"
    /\ \E hexfile \in {None} \cup HexFiles, reflashed \in Flags :
           Invoke("update_firmware", [NoArgs EXCEPT !.hexfile = hexfile],
                  UpdateFirmware(self, hexfile, reflashed))

CallSetAuxJtagFlag ==
    /\ pc = "idle"
    /\ \E flag \in BOOLEAN :
           Invoke("set_aux_jtag_flag", [NoArgs EXCEPT !.flag = PyBool(flag)],
                  SetAuxJtagFlag(flag))

CallGetAuxJtagFlag ==
    /\ pc = "idle"
    /\ Invoke("get_aux_jtag_flag", NoArgs, GetAuxJtagFlag(micro))

CallToggleAuxJtagFlag ==
    /\ pc = "idle"
    /\ Invoke("toggle_aux_jtag_flag", NoArgs, ToggleAuxJtagFlag(micro))

CallSetFlashFlag ==
    /\ pc = "idle"
    /\ \E flag \in BOOLEAN :
           Invoke("set_flash_flag", [NoArgs EXCEPT !.flag = PyBool(flag)],
                  SetFlashFlag(self, flag))

CallGetFlashFlag ==
    /\ pc = "idle"
    /\ Invoke("get_flash_flag", NoArgs, GetFlashFlag(self, micro))

CallToggleFlashFlag ==
    /\ pc = "idle"
    /\ Invoke("toggle_flash_flag", NoArgs, ToggleFlashFlag(self, micro))

CallReadCfgFlash ==
    /\ pc = "idle"
    /\ \E r \in Ranges :
           Invoke("read_cfg_flash", [NoArgs EXCEPT !.range = r],
                  ReadCfgFlash(self, micro, r))

CallWriteCfgFlash ==
    /\ pc = "idle"
    /\ \E hexfile \in HexFiles, r \in Ranges :
           Invoke("write_cfg_flash", [NoArgs EXCEPT !.hexfile = hexfile, !.range = r],
                  WriteCfgFlash(self, micro, hexfile, r))

CallEraseCfgFlash ==
    /\ pc = "idle"
    /\ \E r \in Ranges :
           Invoke("erase_cfg_flash", [NoArgs EXCEPT !.range = r],
                  EraseCfgFlash(self, micro, r))

CallReadSdram ==
    /\ pc = "idle"
    /\ \E r \in Ranges :
           Invoke("read_sdram", [NoArgs EXCEPT !.range = r], ReadSdram(self, r))

CallWriteSdram ==
    /\ pc = "idle"
    /\ \E hexfile \in HexFiles, r \in Ranges :
           Invoke("write_sdram", [NoArgs EXCEPT !.hexfile = hexfile, !.range = r],
                  WriteSdram(self, hexfile, r))

CallEraseSdram ==
    /\ pc = "idle"
    /\ \E r \in Ranges :
           Invoke("erase_sdram", [NoArgs EXCEPT !.range = r], EraseSdram(self, r))

-----------------------------------------------------------------------------

Init ==
    /\ op = "none"
    /\ pc = "idle"
    /\ outcome = NoOutcome
    /\ events = <<>>
    /\ prev_progress = TEST_START
    /\ poll = NoPoll
    /\ polls = 0
    /\ passSeen = FALSE
    /\ sigPassSeen = FALSE
    /\ failSeen = FALSE
    /\ link = NoAnswers
    /\ linkLog = <<>>
    /\ info = <<>>
    /\ board_info = NoInfo
    /\ xsusb_id = None
    /\ xsboard_name = <<>>
    /\ idx = 0
    /\ constructed = <<>>
    /\ probed = <<>>
    /\ last = NoProbe
    /\ linkUsed = FALSE
    /\ readable = TRUE
    /\ fmw = <<>>
    /\ ret = None
    /\ self = None
    /\ micro = [cfg_flash |-> 0, jtag_cable |-> 0]
    /\ before = micro
    /\ trace = <<>>
    /\ args = NoArgs
    /\ result = None
    /\ auxToggles = <<>>

Next ==
    \/ CallDoSelfTest
    \/ Poll
    \/ CallGetBoardInfo
    \/ CallGetXsboard
    \/ Probe

Spec == Init /\ [][Next]_vars

\* The loop of do_self_test runs on once entered: nothing else is scheduled.
FairSpec == Init /\ [][Next]_vars /\ WF_vars(Poll)

\* A board object of one of the classes with an FPGA has been constructed; the
\* microcontroller holds whatever flags it was left with.
BoardInit ==
    /\ op = "none"
    /\ pc = "idle"
    /\ outcome = NoOutcome
    /\ self \in BoardObjects
    /\ micro \in MicroStates
    /\ before = micro
    /\ trace = <<>>
    /\ args = NoArgs
    /\ result = None
    /\ auxToggles = <<>>
    /\ events = <<>>
    /\ prev_progress = TEST_START
    /\ poll = NoPoll
    /\ polls = 0
    /\ passSeen = FALSE
    /\ sigPassSeen = FALSE
    /\ failSeen = FALSE
    /\ link = NoAnswers
    /\ linkLog = <<>>
    /\ info = <<>>
    /\ board_info = NoInfo
    /\ xsusb_id = None
    /\ xsboard_name = <<>>
    /\ idx = 0
    /\ constructed = <<>>
    /\ probed = <<>>
    /\ last = NoProbe
    /\ linkUsed = FALSE
    /\ readable = TRUE
    /\ fmw = <<>>
    /\ ret = None

BoardNext ==
    \/ CallUpdateFirmware
    \/ CallSetAuxJtagFlag
    \/ CallGetAuxJtagFlag
    \/ CallToggleAuxJtagFlag
    \/ CallSetFlashFlag
    \/ CallGetFlashFlag
    \/ CallToggleFlashFlag
    \/ CallReadCfgFlash
    \/ CallWriteCfgFlash
    \/ CallEraseCfgFlash
    \/ CallReadSdram
    \/ CallWriteSdram
    \/ CallEraseSdram

BoardSpec == BoardInit /\ [][BoardNext]_vars

-----------------------------------------------------------------------------
(* Properties of do_self_test.                                             *)

SelfTestOver == op = "do_self_test" /\ pc = "idle"

\* C1 as stated: a finished do_self_test has returned normally exactly when
\* some poll read progress DONE with failed = 0, whatever the signature read.
C1_ReturnsIffDonePoll ==
    SelfTestOver => ((outcome = Returned) <=> passSeen)

\* C1, amended: do_self_test has returned normally exactly when some poll read
\* progress DONE, failed = 0 and the self-test signature; a finished call that
\* did not return raised XsMajorError or XsMinorError.
C1_ReturnsIffSignedDonePoll ==
    (op = "do_self_test") =>
        /\ (outcome = Returned) <=> sigPassSeen
        /\ (pc = "idle") => outcome \in {Returned, XsMajorError, XsMinorError}

\* C1 witness: the call returned on a poll reading DONE, not failed, signed.
C1_Witness ==
    /\ SelfTestOver /\ outcome = Returned
    /\ poll.progress = TEST_DONE /\ poll.failed = 0
    /\ poll.signature = SELF_TEST_SIGNATURE

\* C2: once a poll has read failed = 1 with the right signature, the test is
\* over with XsMinorError: the loop is not polling on and has not returned.
C2_FailedPollEndsTest ==
    (op = "do_self_test" /\ failSeen) => (pc = "idle" /\ outcome = XsMinorError)

\* C3: a poll whose signature is not the self-test signature ends the call with
\* XsMajorError, whatever progress and failed it read and whether or not
\* progress changed, and publishes nothing.
C3_BadSignatureIsFatal ==
    [][(pc = "polling" /\ poll'.signature # SELF_TEST_SIGNATURE)
         => (pc' = "idle" /\ outcome' = XsMajorError /\ events' = events)]_vars

\* C3 witness: the fatal end came on a poll that read DONE, not failed, the
\* wrong signature.
C3_Witness ==
    /\ SelfTestOver /\ outcome = XsMajorError
    /\ poll.signature = BASE_SIGNATURE
    /\ poll.progress = TEST_DONE /\ poll.failed = 0

\* The progress value the previous poll read (TEST_START before the first poll).
PreviousProgress == poll.progress

\* C4: a poll that reads the same progress as the poll before it (or START on
\* the first poll) publishes no phase.
C4_NoPhaseWithoutProgress ==
    [][(pc = "polling" /\ poll'.progress = PreviousProgress) => events' = events]_vars

\* C4 witness: the loop is still running after a poll that read READ again,
\* with failed = 1 and the right signature (had progress changed on it, the
\* call would be over): 'Reading SDRAM' is in the log once, from the earlier
\* poll, and nothing follows it.
C4_Witness ==
    /\ op = "do_self_test" /\ pc = "polling"
    /\ poll.progress = TEST_READ /\ prev_progress = TEST_READ
    /\ poll.failed = 1 /\ poll.signature = SELF_TEST_SIGNATURE
    /\ events = <<"Downloading diagostic bitstream", "Downloading bitstream",
                  "Download complete", "Writing SDRAM", "Reading SDRAM">>

\* C5: the polling loop does not go on forever on a wedged board: it is not
\* so that from some poll on every poll reads the right signature and one and
\* the same progress value while the loop keeps running.
C5_WedgedBoardTerminates ==
    \A p \in Progresses :
        []<>(~(pc = "polling" /\ poll.progress = p /\ poll.signature = SELF_TEST_SIGNATURE))

-----------------------------------------------------------------------------
(* Properties of get_board_info.                                           *)

BoardInfoOver == op = "get_board_info" /\ pc = "idle"
Calls(name) == Cardinality({i \in 1..Len(linkLog) : linkLog[i] = name})

\* C6: a frame whose byte sum is not 0 modulo 256 makes get_board_info raise
\* XsMinorError and return no dictionary; a dictionary is returned only for a
\* frame whose byte sum is 0 modulo 256.
C6_BadChecksumIsMinor ==
    (op = "get_board_info" /\ info # <<>>) =>
        /\ (SumBytes(info) % 256 # 0) => (outcome = XsMinorError /\ board_info = NoInfo)
        /\ (outcome = Returned \/ board_info # NoInfo) => (SumBytes(info) % 256 = 0)

\* C6 witness: a frame with a bad checksum, got on the second get_info, ended
\* the call with XsMinorError.
C6_Witness ==
    /\ BoardInfoOver /\ outcome = XsMinorError
    /\ Len(linkLog) = 3
    /\ info # <<>> /\ SumBytes(info) % 256 = 1

\* C7 as stated: no reset when the first get_info succeeds; when it fails,
\* exactly one reset followed by exactly one more get_info, and XsMajorError
\* if that one fails too; never more than two get_info and one reset.
C7_OneResetThenOneFetch ==
    BoardInfoOver =>
        /\ (link.first.err = None) => linkLog = <<"get_info">>
        /\ (link.first.err # None) => linkLog = <<"get_info", "reset", "get_info">>
        /\ (link.first.err # None /\ link.second.err \in XsError) => outcome = XsMajorError
        /\ Calls("get_info") <= 2 /\ Calls("reset") <= 1

\* C7, amended: no reset when the first get_info succeeds; when it fails,
\* exactly one reset, followed by exactly one more get_info if the reset
\* returned and by nothing if the reset raised; XsMajorError if the reset or
\* the second get_info fails; never more than two get_info and one reset.
C7_OneResetThenFetchUnlessResetFails ==
    BoardInfoOver =>
        /\ (link.first.err = None) => linkLog = <<"get_info">>
        /\ (link.first.err # None /\ link.reset = None)
              => linkLog = <<"get_info", "reset", "get_info">>
        /\ (link.first.err # None /\ link.reset # None)
              => (linkLog = <<"get_info", "reset">> /\ outcome = XsMajorError)
        /\ (link.first.err # None /\ link.second.err \in XsError) => outcome = XsMajorError
        /\ Calls("get_info") <= 2 /\ Calls("reset") <= 1

\* C7 witness: both get_info calls failed, with one reset between them, and
\* the call raised XsMajorError.
C7_Witness ==
    /\ BoardInfoOver /\ outcome = XsMajorError
    /\ link.first.err = XsMinorError /\ link.reset = None /\ link.second.err = XsMinorError
    /\ linkLog = <<"get_info", "reset", "get_info">>

\* The description of frame f (Python's info[5:]) holds no zero byte.
Unterminated(f) == \A i \in 6..Len(f) : f[i] # 0

\* C8: get_board_info fails only with XsMajorError or XsMinorError, and with
\* XsMajorError on a frame with a zero checksum and an unterminated description.
C8_UnterminatedIsMajor ==
    BoardInfoOver =>
        /\ outcome \in {Returned, XsMajorError, XsMinorError}
        /\ (info # <<>> /\ SumBytes(info) % 256 = 0 /\ Unterminated(info))
              => outcome = XsMajorError

-----------------------------------------------------------------------------
(* Properties of get_xsboard.                                              *)

\* C9: get_xsboard with xsusb_id None returns None, whatever the name, with
\* no class constructed and no xsusb or fpga call made.
C9_NoneIdReturnsNone ==
    (op = "get_xsboard" /\ xsusb_id = None) =>
        /\ pc = "idle" /\ outcome = Returned /\ ret = None
        /\ constructed = <<>> /\ probed = <<>> /\ ~linkUsed

\* C9 witness: get_xsboard(None, 'xula-50') is over; the name is Xula50's.
C9_Witness ==
    /\ op = "get_xsboard" /\ pc = "idle" /\ xsusb_id = None
    /\ NameMatch(xsboard_name) = 2
    /\ outcome = Returned /\ ret = None

\* get_xsboard was called with a port and a name that no class has.
AutoProbe == op = "get_xsboard" /\ xsusb_id # None /\ NameMatch(xsboard_name) = 0

\* C10: auto-probing constructs the classes in the order of board_classes and
\* checks each; it goes on past a class whose constructor or check raised
\* XsMinorError; it ends by returning the first class that reported connected,
\* with no class after it constructed, or None when none did: never by an
\* exception.
C10_ProbeReturnsFirstConnected ==
    AutoProbe =>
        /\ constructed = SubSeq(board_classes, 1, Len(constructed))
        /\ Len(probed) = Len(constructed)
        /\ \A i \in 1..(Len(probed) - 1) : ~probed[i].connected
        /\ (last.ctor = XsMinorError \/ last.check = XsMinorError)
              => (pc = "probing" \/ Len(constructed) = Len(board_classes))
        /\ (pc = "idle") =>
              /\ outcome = Returned
              /\ IF \E i \in 1..Len(probed) : probed[i].connected
                 THEN ret = probed[Len(probed)].cls /\ probed[Len(probed)].connected
                 ELSE ret = None /\ Len(constructed) = Len(board_classes)

\* C11: in auto-probing an XsMajorError raised by a class's constructor or by
\* its check ends get_xsboard with that error: no further class is probed.
C11_MajorErrorAbortsProbe ==
    (AutoProbe /\ (last.ctor = XsMajorError \/ last.check = XsMajorError))
        => (pc = "idle" /\ outcome = XsMajorError)

\* Version <<major, minor>> is older than 1.2 in the major-then-minor order.
OlderThan12(v) == v[1] < 1 \/ (v[1] = 1 /\ v[2] < 2)

\* Auto-probing has ended on a readable board: every class probed was
\* constructed and read a valid frame of the one firmware version fmw.
ReadableProbeOver == AutoProbe /\ pc = "idle" /\ readable /\ fmw # <<>>

\* C19: auto-probing of a readable board never ends in None or an exception:
\* with a version below 1.2 it returns XulaOldFmw and no FPGA was asked;
\* otherwise it returns the first class with an FPGA that reported connected,
\* or XulaNoJtag after all four of them reported not connected.
C19_ReadableBoardIsIdentified ==
    ReadableProbeOver =>
        /\ outcome = Returned /\ ret # None
        /\ ret = probed[Len(probed)].cls /\ probed[Len(probed)].connected
        /\ \A i \in 1..(Len(probed) - 1) : ~probed[i].connected
        /\ OlderThan12(fmw) => (ret = "XulaOldFmw" /\ ~last.asked)
        /\ ~OlderThan12(fmw) => ret # "XulaOldFmw"
        /\ (ret = "XulaNoJtag") => Len(probed) = Len(board_classes)

\* C20: on a valid frame the connectivity checks take the firmware for older
\* than 1.2 exactly when its version bytes are below (1, 2) in the
\* major-then-minor order: XulaOldFmw reports connected exactly then,
\* XulaNoJtag exactly otherwise, and a class with an FPGA asks its FPGA
\* exactly otherwise.
C20_VersionTestFollowsByteOrder ==
    (AutoProbe /\ readable /\ fmw # <<>>) =>
        CASE last.check \notin {"True", "False"} -> TRUE
          [] probed[Len(probed)].cls = "XulaOldFmw" ->
                probed[Len(probed)].connected <=> OlderThan12(fmw)
          [] probed[Len(probed)].cls = "XulaNoJtag" ->
                probed[Len(probed)].connected <=> ~OlderThan12(fmw)
          [] OTHER -> last.asked <=> ~OlderThan12(fmw)

-----------------------------------------------------------------------------
(* Properties of the flag methods, update_firmware and the workflows.      *)

FlashCalls == {"read_cfg_flash", "write_cfg_flash", "erase_cfg_flash"}

SdramCalls == {"read_sdram", "write_sdram", "erase_sdram"}

FlashDriverCalls == {"cfg_flash.read", "cfg_flash.write", "cfg_flash.erase"}

SdramDriverCalls == {"sdram.read", "sdram.write", "sdram.erase"}

\* The positions of the trace where call name was made.
At(name) == {i \in 1..Len(trace) : trace[i].call = name}

\* The positions of the trace where phase text was published.
Published(text) == {i \in At("pub.sendMessage") : trace[i].what = text}

\* The flash enable flag of the microcontroller when call i of the trace was made.
FlashFlagAt(i) == RunMicro(before, SubSeq(trace, 1, i - 1)).cfg_flash

\* C12: a flash workflow of a Xula that returns leaves the flash enable flag
\* as it was at the call, and every call it makes on the flash driver finds
\* the flag enabled.
C12_FlashFlagRestored ==
    (op \in FlashCalls /\ IsXula(self)) =>
        /\ outcome = Returned => micro.cfg_flash = before.cfg_flash
        /\ \A i \in 1..Len(trace) :
              trace[i].call \in FlashDriverCalls => FlashFlagAt(i) = 1

C12_Witness ==
    /\ op \in FlashCalls /\ IsXula(self) /\ outcome = Returned
    /\ before.cfg_flash = 0
    /\ \E i \in 1..Len(trace) : trace[i].call \in FlashDriverCalls

\* C13: a flash workflow of a Xula that fails in the FPGA configuration, the
\* creation of the flash handle or the read, write or erase also leaves the
\* flash enable flag as it was at the call.
C13_FlashFlagRestoredOnFailure ==
    (/\ op \in FlashCalls /\ IsXula(self) /\ outcome \in XsError
     /\ trace[Len(trace)].call \in {"fpga.configure", "create_cfg_flash"}
                                       \cup FlashDriverCalls)
        => micro.cfg_flash = before.cfg_flash

\* C14: on a Xula2 set_flash_flag, get_flash_flag and toggle_flash_flag always
\* return True, whatever the argument and whatever was called before, make no
\* call on the microcontroller or anything else, and change no flag.
C14_Xula2FlashAlwaysEnabled ==
    (op \in {"set_flash_flag", "get_flash_flag", "toggle_flash_flag"} /\ IsXula2(self)) =>
        /\ outcome = Returned
        /\ result = PyBool(TRUE)
        /\ trace = <<>>
        /\ micro = before

C14_Witness ==
    op = "set_flash_flag" /\ IsXula2(self) /\ args.flag = PyBool(FALSE) /\ outcome = Returned

\* C15: a toggle_aux_jtag_flag that returns has returned the negation of the
\* cable flag it read and left the flag equal to what it returned; after two
\* of them in a row the flag is what it was before the first.
C15_ToggleTwiceRestores ==
    /\ auxToggles # <<>> =>
          /\ result = PyBool(auxToggles[Len(auxToggles)] = 0)
          /\ (micro.jtag_cable # 0) <=> (result = PyBool(TRUE))
    /\ Len(auxToggles) = 2 => micro.jtag_cable = auxToggles[1]

C15_Witness ==
    Len(auxToggles) = 2 /\ auxToggles[1] = 1 /\ op = "toggle_aux_jtag_flag"

\* What a statement shows of itself: the phase it publishes or the call it makes.
Label(step) == IF step.call = "pub.sendMessage" THEN step.what ELSE step.call

UpdateFirmwareOrder ==
    <<"Updating firmware", "micro.enter_reflash_mode", "micro.program",
      "micro.enter_user_mode", "micro.disable_jtag_cable", "Firmware update done">>

\* C16: update_firmware goes through its six steps in the fixed order, as far
\* as it gets; 'Firmware update done' is published only by a run that disabled
\* the cable after programming, and a run that returns leaves the cable flag
\* disabled whatever the programming left behind.
C16_FirmwareUpdateOrder ==
    op = "update_firmware" =>
        /\ Len(trace) <= Len(UpdateFirmwareOrder)
        /\ \A i \in 1..Len(trace) : Label(trace[i]) = UpdateFirmwareOrder[i]
        /\ outcome = Returned <=> Published("Firmware update done") # {}
        /\ outcome = Returned =>
              /\ Len(trace) = Len(UpdateFirmwareOrder)
              /\ micro.jtag_cable = 0

C16_Witness ==
    /\ op = "update_firmware" /\ outcome = Returned
    /\ \E i \in At("micro.program") : trace[i].range = <<1>>
    /\ before.jtag_cable = 0

\* The shared order as it applies to workflow o of an object of class c: the
\* phase that opens it, the bitstream it loads, the phases of its device
\* operations, the handle it creates, the driver calls it makes and the phase
\* that closes it.
WorkflowShape(o, c) ==
    CASE o = "read_cfg_flash" ->
            [configuring |-> "Configuring FPGA for reading configuration flash",
             bitstream |-> cfg_flash_bitstream(c),
             phases |-> {"Reading configuration flash"},
             handle |-> "create_cfg_flash",
             driver |-> {"cfg_flash.read"},
             done |-> "Configuration flash read done"]
      [] o = "write_cfg_flash" ->
            [configuring |-> "Configuring FPGA for writing configuration flash",
             bitstream |-> cfg_flash_bitstream(c),
             phases |-> {"Erasing configuration flash", "Writing configuration flash"},
             handle |-> "create_cfg_flash",
             driver |-> {"cfg_flash.erase", "cfg_flash.write"},
             done |-> "Configuration flash write done"]
      [] o = "erase_cfg_flash" ->
            [configuring |-> "Configuring FPGA for erasing configuration flash",
             bitstream |-> cfg_flash_bitstream(c),
             phases |-> {"Erasing configuration flash"},
             handle |-> "create_cfg_flash",
             driver |-> {"cfg_flash.erase"},
             done |-> "Configuration flash erase done"]
      [] o = "read_sdram" ->
            [configuring |-> "Configuring FPGA for reading SDRAM",
             bitstream |-> sdram_bitstream(c),
             phases |-> {"Reading SDRAM"},
             handle |-> "create_sdram",
             driver |-> {"sdram.read"},
             done |-> "SDRAM read done"]
      [] o = "write_sdram" ->
            [configuring |-> "Configuring FPGA for writing SDRAM",
             bitstream |-> sdram_bitstream(c),
             phases |-> {"Writing SDRAM"},
             handle |-> "create_sdram",
             driver |-> {"sdram.write"},
             done |-> "SDRAM write done"]
      [] o = "erase_sdram" ->
            [configuring |-> "Configuring FPGA for erasing SDRAM",
             bitstream |-> sdram_bitstream(c),
             phases |-> {"Erasing SDRAM"},
             handle |-> "create_sdram",
             driver |-> {"sdram.erase"},
             done |-> "SDRAM erase done"]

\* The levels of the pulse on the programming line.
ProgPulse == <<1, 0, 1>>

C18_FlashCallsKeepToRange ==
    (op \in {"erase_cfg_flash", "write_cfg_flash"}) =>
        \A i \in At("cfg_flash.erase") \cup At("cfg_flash.write") :
            trace[i].range = args.range

====
